---- MODULE Spec2Model ----
(***************************************************************************)
(* A model of services/location.py: the geocoding step (get_coordinates    *)
(* and its two provider functions), the Open-Meteo request builder         *)
(* (prepare_om_params), the batch run of main() and the ordering protocol  *)
(* of SortableEnum / OmVariableEnum.                                       *)
(*                                                                         *)
(* Python strings are sequences of one-character strings, so that split,   *)
(* join and lexicographic comparison are computed and not assumed.         *)
(* Floats are records [nan, v]: v is a whole number of degrees, nan marks  *)
(* numpy.nan.                                                              *)
(***************************************************************************)
EXTENDS Integers, Sequences, FiniteSets, TLC

VARIABLES
    pc,                 \* where main() stands
    batch,              \* the (city, country) arguments of the make_call list
    loc,                \* the LocationData inside get_coordinates
    calls,              \* the list of (loc, params) built at lines 142-147
    j,                  \* iterations of the for loop completed
    inflight,           \* network requests sent and not yet answered
    geo_log,            \* geocoding requests sent, each with its answer once it came
    weather_log,        \* params handed to om.weather_api, in order
    hourly_T_air,       \* local of the loop body
    hourly_radiation,   \* local of the loop body
    response,           \* local of the loop body
    printed,            \* loop indexes whose lines 167-169 reached stdout
    exc,                \* the exception that left main(), or "None"
    call,               \* a direct call of one of the module's functions
    ret                 \* and what it returned or raised

vars == <<pc, batch, loc, calls, j, inflight, geo_log, weather_log,
          hourly_T_air, hourly_radiation, response, printed, exc, call, ret>>

\* Python's None where a string or a member is expected, and a name not yet bound.
None == "None"
Unbound == [unbound |-> TRUE]

(***************************************************************************)
(* Bounds of the model.                                                    *)
(***************************************************************************)
BatchLen == 2
MaxSeries == 2

(***************************************************************************)
(* Strings.                                                                *)
(***************************************************************************)
\* The characters the compared strings use, in code point order.
Alphabet ==
    <<"0","1","2","3","4","5","6","7","8","9","_",
      "a","b","c","d","e","f","g","h","i","j","k","l","m",
      "n","o","p","q","r","s","t","u","v","w","x","y","z">>

Ord(c) == CHOOSE n \in 1..Len(Alphabet) : Alphabet[n] = c

RECURSIVE str_lt(_, _)
\* str.__lt__: lexicographic on code points, a proper prefix is smaller.
str_lt(s, t) ==
    IF t = <<>> THEN FALSE
    ELSE IF s = <<>> THEN TRUE
    ELSE IF Head(s) = Head(t) THEN str_lt(Tail(s), Tail(t))
    ELSE Ord(Head(s)) < Ord(Head(t))

str_le(s, t) == s = t \/ str_lt(s, t)
str_gt(s, t) == str_lt(t, s)
str_ge(s, t) == s = t \/ str_lt(t, s)

RECURSIVE join(_, _)
\* delim.join(lst)
join(delim, lst) ==
    IF lst = <<>> THEN <<>>
    ELSE IF Len(lst) = 1 THEN lst[1]
    ELSE lst[1] \o delim \o join(delim, Tail(lst))

RECURSIVE split(_, _)
\* s.split(sep) for a one-character sep: always at least one piece.
split(s, sep) ==
    IF \A n \in 1..Len(s) : s[n] # sep THEN <<s>>
    ELSE LET n == CHOOSE m \in 1..Len(s) :
                      s[m] = sep /\ \A k \in 1..(m - 1) : s[k] # sep
         IN  <<SubSeq(s, 1, n - 1)>> \o split(SubSeq(s, n + 1, Len(s)), sep)

(***************************************************************************)
(* SortableEnum and OmVariableEnum.                                        *)
(***************************************************************************)
\* list(OmVariableEnum): the members in declaration order.
OmVariableEnum ==
    <<"TempAir", "RelHum", "DePoint", "Pressure",
      "WindSpeed", "TempSoil", "Precipitation", "Radiation">>

Members == {OmVariableEnum[n] : n \in 1..Len(OmVariableEnum)}

\* entry.value
value(m) ==
    CASE m = "TempAir" -> <<"t","e","m","p","e","r","a","t","u","r","e","_","2","m">>
      [] m = "RelHum" -> <<"r","e","l","a","t","i","v","e","_","h","u","m","i","d","i","t","y","_","2","m">>
      [] m = "DePoint" -> <<"d","e","w","_","p","o","i","n","t","_","2","m">>
      [] m = "Pressure" -> <<"s","u","r","f","a","c","e","_","p","r","e","s","s","u","r","e">>
      [] m = "WindSpeed" -> <<"w","i","n","d","_","s","p","e","e","d","_","1","0","m">>
      [] m = "TempSoil" -> <<"s","o","i","l","_","t","e","m","p","e","r","a","t","u","r","e","_","5","4","c","m">>
      [] m = "Precipitation" -> <<"p","r","e","c","i","p","i","t","a","t","i","o","n">>
      [] m = "Radiation" -> <<"d","i","r","e","c","t","_","r","a","d","i","a","t","i","o","n">>

\* a == b on members: OmVariableEnum(str, SortableEnum) takes __eq__ from str.
eq(a, b) == value(a) = value(b)

\* order.index(x): the position (from 0) of the first element equal to x.
index(order, x) ==
    (CHOOSE n \in 1..Len(order) :
        eq(order[n], x) /\ \A k \in 1..(n - 1) : ~eq(order[k], x)) - 1

\* SortableEnum.idx
idx(self) == index(OmVariableEnum, self)

\* The comparison methods SortableEnum defines. A result is [val, exc].
Returned(v) == [val |-> v, exc |-> "None"]
Raised(e) == [val |-> None, exc |-> e]

SortableEnum_lt(self, other) ==
    IF other = None THEN Returned(FALSE)
    ELSE Returned(index(OmVariableEnum, self) < index(OmVariableEnum, other))

SortableEnum_le(self, other) ==
    IF other = None THEN Returned(FALSE)
    ELSE Returned(SortableEnum_lt(self, other).val \/ eq(self, other))

SortableEnum_gt(self, other) ==
    IF other = None THEN Returned(TRUE)
    ELSE Returned(~SortableEnum_le(self, other).val)

SortableEnum_ge(self, other) ==
    IF other = None THEN Returned(TRUE)
    ELSE Returned(~SortableEnum_lt(self, other).val)

\* The bases of OmVariableEnum in method resolution order: str comes first,
\* so every rich comparison str defines is found there.
Bases == <<"str", "SortableEnum">>

resolve(method) ==
    LET defines == [b \in {"str", "SortableEnum"} |->
                        {"__lt__", "__le__", "__gt__", "__ge__", "__eq__"}]
    IN  Bases[CHOOSE n \in 1..Len(Bases) :
                  method \in defines[Bases[n]]
                  /\ \A k \in 1..(n - 1) : method \notin defines[Bases[k]]]

\* a < b, a <= b, a > b, a >= b as Python evaluates them on a member a.
\* str's methods answer NotImplemented for None, and so does the reflected
\* method of None: the comparison raises TypeError.
lt(a, b) ==
    IF resolve("__lt__") = "SortableEnum" THEN SortableEnum_lt(a, b)
    ELSE IF b = None THEN Raised("TypeError")
    ELSE Returned(str_lt(value(a), value(b)))

le(a, b) ==
    IF resolve("__le__") = "SortableEnum" THEN SortableEnum_le(a, b)
    ELSE IF b = None THEN Raised("TypeError")
    ELSE Returned(str_le(value(a), value(b)))

gt(a, b) ==
    IF resolve("__gt__") = "SortableEnum" THEN SortableEnum_gt(a, b)
    ELSE IF b = None THEN Raised("TypeError")
    ELSE Returned(str_gt(value(a), value(b)))

ge(a, b) ==
    IF resolve("__ge__") = "SortableEnum" THEN SortableEnum_ge(a, b)
    ELSE IF b = None THEN Raised("TypeError")
    ELSE Returned(str_ge(value(a), value(b)))

\* sorted(OmVariableEnum): ascending by <.
sorted(order) == SortSeq(order, LAMBDA a, b : lt(a, b).val)

(***************************************************************************)
(* Floats and the JSON values the collaborators answer with.               *)
(***************************************************************************)
Float(n) == [nan |-> FALSE, v |-> n]
nan == [nan |-> TRUE, v |-> 0]

JNumber(f) == [t |-> "number", f |-> f]
JString(s) == [t |-> "string", s |-> s]
JNull == [t |-> "null"]

Digits == {"0","1","2","3","4","5","6","7","8","9"}

RECURSIVE int_of(_)
\* The number a non-empty string of digits denotes.
int_of(s) ==
    IF s = <<>> THEN 0
    ELSE 10 * int_of(SubSeq(s, 1, Len(s) - 1)) + (Ord(s[Len(s)]) - 1)

\* float(s) for a str s: an optional sign, then "nan" or decimal digits
\* (the strings of this model carry no fraction, exponent or blanks).
float_str(s) ==
    LET signed == s # <<>> /\ s[1] \in {"-", "+"}
        body == IF signed THEN Tail(s) ELSE s
    IN  IF body = <<"n","a","n">> THEN Returned(nan)
        ELSE IF body # <<>> /\ \A n \in 1..Len(body) : body[n] \in Digits
        THEN Returned(Float(IF signed /\ s[1] = "-"
                            THEN 0 - int_of(body) ELSE int_of(body)))
        ELSE Raised("ValueError")

\* float(x) for a JSON value x.
float(x) ==
    IF x.t = "number" THEN Returned(x.f)
    ELSE IF x.t = "string" THEN float_str(x.s)
    ELSE Raised("TypeError")

(***************************************************************************)
(* LocationData.                                                           *)
(***************************************************************************)
\* LocationData(name=city, country=country): lat and lon default to nan.
LocationData(name, country) ==
    [name |-> name, country |-> country, lat |-> nan, lon |-> nan]

\* LocationData.loc_str
loc_str(self, delim) ==
    LET lst1 == IF self.name # <<>> THEN <<self.name>> ELSE <<>>
        lst2 == IF self.country # <<>> THEN Append(lst1, self.country) ELSE lst1
    IN  join(delim, lst2)

(***************************************************************************)
(* The provider functions. Each is split at its one network call: the      *)
(* request it sends, and what it does with the answer. An answer is        *)
(* [exc, json]: the transport raised exc, or delivered json.               *)
(* The outcome is [loc, exc, line]: the Location as the function leaves it,*)
(* and the exception that left the function with the line that raised it.  *)
(***************************************************************************)
Outcome(l, e, line) == [loc |-> l, exc |-> e, line |-> line]

\* nominatim.query(loc.loc_str())
location_query_osm_request(l) ==
    [service |-> "nominatim", query |-> loc_str(l, <<",", " ">>)]

\* lines 66-69, given toJSON(): a list of dicts
location_query_osm(l, answer) ==
    IF answer.exc # "None" THEN Outcome(l, answer.exc, 66)
    ELSE IF answer.json = <<>> THEN Outcome(l, "IndexError", 66)
    ELSE LET dct == answer.json[1] IN
    IF "lat" \notin DOMAIN dct THEN Outcome(l, "KeyError", 67)
    ELSE LET lat == float(dct["lat"]) IN
    IF lat.exc # "None" THEN Outcome(l, lat.exc, 67)
    ELSE LET l1 == [l EXCEPT !.lat = lat.val] IN
    IF "lon" \notin DOMAIN dct THEN Outcome(l1, "KeyError", 68)
    ELSE LET lon == float(dct["lon"]) IN
    IF lon.exc # "None" THEN Outcome(l1, lon.exc, 68)
    ELSE Outcome([l1 EXCEPT !.lon = lon.val], "None", 69)

count == 10

\* lines 73-88: the GET the function sends
location_query_om_request(l, apikey) ==
    LET params == [count |-> count, language |-> "en", format |-> "json",
                   name |-> join(<<"+">>, split(l.name, " "))]
    IN  IF apikey # None
        THEN [service |-> "geocoding",
              URL |-> "https://customer-geocoding-api.open-meteo.com/v1/search",
              params |-> params, apikey |-> apikey]
        ELSE [service |-> "geocoding",
              URL |-> "https://geocoding-api.open-meteo.com/v1/search",
              params |-> params, apikey |-> None]

\* lines 88-92, given s.get(url).json(): a dict
location_query_om(l, answer) ==
    IF answer.exc # "None" THEN Outcome(l, answer.exc, 88)
    ELSE LET dct == answer.json IN
    IF "results" \notin DOMAIN dct THEN Outcome(l, "KeyError", 89)
    ELSE IF dct["results"] = <<>> THEN Outcome(l, "IndexError", 89)
    ELSE LET item == dct["results"][1] IN
    IF "latitude" \notin DOMAIN item THEN Outcome(l, "KeyError", 90)
    ELSE LET lat == float(item["latitude"]) IN
    IF lat.exc # "None" THEN Outcome(l, lat.exc, 90)
    ELSE LET l1 == [l EXCEPT !.lat = lat.val] IN
    IF "longitude" \notin DOMAIN item THEN Outcome(l1, "KeyError", 91)
    ELSE LET lon == float(item["longitude"]) IN
    IF lon.exc # "None" THEN Outcome(l1, lon.exc, 91)
    ELSE Outcome([l1 EXCEPT !.lon = lon.val], "None", 92)

\* get_coordinates: the provider it calls (line 98), without an apikey
get_coordinates_request(l) == location_query_om_request(l, None)
get_coordinates(l, answer) == location_query_om(l, answer)

(***************************************************************************)
(* prepare_om_params and make_call.                                        *)
(***************************************************************************)
forecast_days == 2
tilt == 45
azimuth == -45

\* prepare_om_params with the arguments taken in the other order.
prepare_om_params_swapped(lat, long) ==
    [latitude |-> long,
     longitude |-> lat,
     hourly |-> [n \in 1..Len(OmVariableEnum) |-> value(OmVariableEnum[n])],
     forecast_days |-> forecast_days,
     tilt |-> tilt,
     azimuth |-> azimuth]

\* prepare_om_params listing sorted(OmVariableEnum).
prepare_om_params_sorted(lat, long) ==
    [latitude |-> lat,
     longitude |-> long,
     hourly |-> [n \in 1..Len(OmVariableEnum) |-> value(sorted(OmVariableEnum)[n])],
     forecast_days |-> forecast_days,
     tilt |-> tilt,
     azimuth |-> azimuth]

prepare_om_params(lat, long) ==
    [latitude |-> lat,
     longitude |-> long,
     hourly |-> [n \in 1..Len(OmVariableEnum) |-> value(OmVariableEnum[n])],
     forecast_days |-> forecast_days,
     tilt |-> tilt,
     azimuth |-> azimuth]

\* make_call handing back a Location built anew from the name and country.
make_call_fresh(l) ==
    [loc |-> LocationData(l.name, l.country),
     params |-> prepare_om_params(l.lat, l.lon)]

\* make_call once get_coordinates has returned l: lines 137-138
make_call(l) == [loc |-> l, params |-> prepare_om_params(l.lat, l.lon)]

(***************************************************************************)
(* The weather response and the extraction of lines 158-165.               *)
(***************************************************************************)
\* A series of the hourly block: its variable, its altitude or depth, its samples
\* (in hundredths). TempAir carries the samples 10.0, 11.5, 9.25.
altitude(m) ==
    CASE m \in {"TempAir", "RelHum", "DePoint"} -> 2
      [] m = "WindSpeed" -> 10
      [] m = "TempSoil" -> 54
      [] OTHER -> 0

samples(m) == IF m = "TempAir" THEN <<1000, 1150, 925>> ELSE <<idx(m), 25>>

Series(m) == [variable |-> m, altitude |-> altitude(m), values |-> samples(m)]

\* What reading past the end of the series vector may yield.
Garbage == [variable |-> "?", altitude |-> 0, values |-> <<0 - 1>>]

\* hourly.Variables(i): the SDK's accessor indexes the vector without a
\* range check. Past the end the outcome is not defined: it raises, or
\* yields whatever the buffer holds there.
Variables(hourly, i) ==
    IF i + 1 \in 1..Len(hourly.Variables)
    THEN {Returned(hourly.Variables[i + 1])}
    ELSE {Raised("AttributeError"), Returned(Garbage)}

\* series.ValuesAsNumpy()
ValuesAsNumpy(series) == [ndarray |-> series.values]

\* hourly.Variables(kind.idx()).ValuesAsNumpy(): lines 162-163 and 164-165
extract(hourly, kind) ==
    {IF o.exc = "None" THEN Returned(ValuesAsNumpy(o.val)) ELSE Raised(o.exc)
        : o \in Variables(hourly, idx(kind))}

\* range(start, stop, step): line 160
range(start, stop, step) ==
    IF step = 0 THEN Raised("ValueError")
    ELSE Returned([start |-> start, stop |-> stop, step |-> step])

\* Lines 154-169 on the list weather_api returned: every way the body can
\* end, as [exc, line, T_air, radiation] (a local keeps its value when the
\* body raises before assigning it).
loop_body(responses, T_air, radiation) ==
    LET hourly == responses[1].Hourly
        time == range(hourly.Time, hourly.TimeEnd, hourly.Interval)
        end(e, line, t, r) ==
            [exc |-> e, line |-> line, T_air |-> t, radiation |-> r]
    IN  IF time.exc # "None" THEN {end(time.exc, 160, T_air, radiation)}
        ELSE UNION {
            IF t.exc # "None" THEN {end(t.exc, 163, T_air, radiation)}
            ELSE {IF r.exc # "None" THEN end(r.exc, 165, t.val, radiation)
                  ELSE end("None", 169, t.val, r.val)
                    : r \in extract(hourly, "Radiation")}
            : t \in extract(hourly, "TempAir")}

(***************************************************************************)
(* The collaborators: every answer they may give.                          *)
(***************************************************************************)
SanJose == <<"S","a","n"," ","J","o","s","e">>
Zurich == <<"Z","u","r","i","c","h">>
USA == <<"U","S","A">>
CostaRica == <<"C","o","s","t","a"," ","R","i","c","a">>

\* The (city, country) pairs a batch is made of.
Inputs ==
    {[city |-> SanJose, country |-> USA],
     [city |-> SanJose, country |-> CostaRica],
     [city |-> Zurich, country |-> <<>>]}

Answer(e, json) == [exc |-> e, json |-> json]

\* A candidate: a dict with the given keys, or without them.
Candidates(latkey, lonkey, lats, lons) ==
    {[k \in {latkey, lonkey} |-> IF k = latkey THEN la ELSE lo]
        : la \in lats, lo \in lons}
    \cup {[k \in {latkey} |-> la] : la \in lats}
    \cup {[k \in {lonkey} |-> lo] : lo \in lons}

Unparseable == JString(<<"a","b","c">>)

\* What the geocoding search answers main() with.
GeoAnswers ==
    {Answer("ConnectionError", [error |-> TRUE]),
     Answer("None", [generationtime_ms |-> 1]),
     Answer("None", [results |-> <<>>])}
    \cup {Answer("None", [results |-> <<c>>]) :
            c \in Candidates("latitude", "longitude",
                             {JNumber(Float(40)), JNumber(nan), Unparseable},
                             {JNumber(Float(0 - 74)), Unparseable})}

\* The member a requested identifier names.
member(v) == CHOOSE m \in Members : value(m) = v

Hourly(series, interval) ==
    [Time |-> 0, TimeEnd |-> 7200, Interval |-> interval, Variables |-> series]

RECURSIVE SeqsUpTo(_, _)
\* The non-empty sequences over S of length at most n.
SeqsUpTo(S, n) ==
    IF n <= 1 THEN {<<x>> : x \in S}
    ELSE LET shorter == SeqsUpTo(S, n - 1)
         IN  shorter \cup {Append(q, x) : q \in shorter, x \in S}

Reverse(q) == [n \in 1..Len(q) |-> q[Len(q) + 1 - n]]

\* The series lists a response may hold: one series per requested variable
\* in request order, the same in another order or with the first missing,
\* and short lists of one series or more.
SeriesLists(params) ==
    LET asked == [n \in 1..Len(params.hourly) |-> Series(member(params.hourly[n]))]
    IN  {asked, Reverse(asked), Tail(asked)}
        \cup SeqsUpTo({Series("TempAir"), Series("Precipitation")}, MaxSeries)

\* What om.weather_api(url, params=params) ends with: it raises, or returns
\* a list of one response.
WeatherAnswers(params) ==
    {[exc |-> "OpenMeteoRequestsError", responses |-> <<>>]}
    \cup {[exc |-> "None", responses |-> <<[Hourly |-> Hourly(sl, i)]>>]
            : sl \in SeriesLists(params), i \in {0, 3600}}

(***************************************************************************)
(* main().                                                                 *)
(***************************************************************************)
Idle == call = [fn |-> "None"] /\ ret = Returned(None)

\* main() names four (city, country) pairs; a run of the model takes
\* BatchLen pairs from Inputs.
Init ==
    /\ pc = "make_call"
    /\ batch \in [1..BatchLen -> Inputs]
    /\ loc = Unbound
    /\ calls = <<>>
    /\ j = 0
    /\ inflight = <<>>
    /\ geo_log = <<>>
    /\ weather_log = <<>>
    /\ hourly_T_air = Unbound
    /\ hourly_radiation = Unbound
    /\ response = Unbound
    /\ printed = {}
    /\ exc = [type |-> "None", line |-> 0]
    /\ Idle

\* The next make_call of the list at lines 142-147, up to the GET of
\* _location_query_om.
make_call_send ==
    /\ pc = "make_call"
    /\ LET arg == batch[Len(calls) + 1]
           l == LocationData(arg.city, arg.country)
       IN  /\ loc' = l
           /\ inflight' = Append(inflight, get_coordinates_request(l))
           /\ geo_log' = Append(geo_log, [request |-> get_coordinates_request(l),
                                           answer |-> Unbound])
    /\ pc' = "geo_wait"
    /\ UNCHANGED <<batch, calls, j, weather_log, hourly_T_air,
                   hourly_radiation, response, printed, exc, call, ret>>

\* The answer arrives: the rest of _location_query_om, get_coordinates and
\* make_call. An exception leaves main(): nothing catches it.
make_call_recv ==
    /\ pc = "geo_wait"
    /\ \E answer \in GeoAnswers :
        LET out == get_coordinates(loc, answer) IN
        /\ loc' = out.loc
        /\ geo_log' = [geo_log EXCEPT ![Len(geo_log)].answer = answer]
        /\ IF out.exc # "None"
           THEN /\ pc' = "raised"
                /\ exc' = [type |-> out.exc, line |-> out.line]
                /\ calls' = calls
           ELSE /\ calls' = Append(calls, make_call(out.loc))
                /\ pc' = IF Len(calls') = Len(batch) THEN "loop" ELSE "make_call"
                /\ exc' = exc
    /\ inflight' = Tail(inflight)
    /\ UNCHANGED <<batch, j, weather_log, hourly_T_air,
                   hourly_radiation, response, printed, call, ret>>

\* The loop body up to the call of om.weather_api: lines 149-153.
loop_send ==
    /\ pc = "loop"
    /\ LET params == calls[j + 1].params
       IN  /\ inflight' = Append(inflight,
                [service |-> "forecast",
                 URL |-> "https://api.open-meteo.com/v1/forecast",
                 params |-> params])
           /\ weather_log' = Append(weather_log, params)
    /\ pc' = "weather_wait"
    /\ UNCHANGED <<batch, loc, calls, j, geo_log, hourly_T_air,
                   hourly_radiation, response, printed, exc, call, ret>>

\* weather_api returns or raises, and the body runs to its end: lines 151-169.
loop_recv ==
    /\ pc = "weather_wait"
    /\ inflight' = Tail(inflight)
    /\ \E answer \in WeatherAnswers(calls[j + 1].params) :
        IF answer.exc # "None"
        THEN /\ pc' = "raised"
             /\ exc' = [type |-> answer.exc, line |-> 151]
             /\ UNCHANGED <<j, hourly_T_air, hourly_radiation, response, printed>>
        ELSE \E end \in loop_body(answer.responses, hourly_T_air, hourly_radiation) :
             /\ response' = answer.responses[1]
             /\ hourly_T_air' = end.T_air
             /\ hourly_radiation' = end.radiation
             /\ IF end.exc # "None"
                THEN /\ pc' = "raised"
                     /\ exc' = [type |-> end.exc, line |-> end.line]
                     /\ UNCHANGED <<j, printed>>
                ELSE /\ printed' = printed \cup {j + 1}
                     /\ j' = j + 1
                     /\ pc' = IF j' = Len(calls) THEN "done" ELSE "loop"
                     /\ exc' = exc
    /\ UNCHANGED <<batch, loc, calls, geo_log, weather_log, call, ret>>

Next == make_call_send \/ make_call_recv \/ loop_send \/ loop_recv

Spec == Init /\ [][Next]_vars

(***************************************************************************)
(* The module's functions called directly, as an importer may call them.   *)
(***************************************************************************)
\* A Location some earlier call resolved.
Resolved == [LocationData(Zurich, <<>>) EXCEPT !.lat = Float(47), !.lon = Float(8)]

LibLocations ==
    {LocationData(i.city, i.country) : i \in Inputs}
    \cup {LocationData(<<>>, USA), LocationData(<<>>, <<>>), Resolved}

JsonFields ==
    {JNumber(Float(40)), JNumber(nan), JString(<<"4","0">>),
     JString(<<"-","7","4">>), JString(<<"n","a","n">>), JString(<<>>),
     Unparseable, JNull}

\* What the geocoding search may answer.
OmAnswers ==
    GeoAnswers
    \cup {Answer("None", [results |-> <<c>>]) :
            c \in Candidates("latitude", "longitude", JsonFields, JsonFields)}

\* What nominatim.query(...).toJSON() may be.
OsmAnswers ==
    {Answer("ConnectionError", <<>>), Answer("None", <<>>)}
    \cup {Answer("None", <<c>>) :
            c \in Candidates("lat", "lon", JsonFields, JsonFields)}

InitLib ==
    /\ pc = "imported"
    /\ batch = <<>>
    /\ loc = Unbound
    /\ calls = <<>>
    /\ j = 0
    /\ inflight = <<>>
    /\ geo_log = <<>>
    /\ weather_log = <<>>
    /\ hourly_T_air = Unbound
    /\ hourly_radiation = Unbound
    /\ response = Unbound
    /\ printed = {}
    /\ exc = [type |-> "None", line |-> 0]
    /\ Idle

MainVars == <<pc, batch, loc, calls, j, inflight, geo_log, weather_log,
              hourly_T_air, hourly_radiation, response, printed, exc>>

call_lt ==
    \E a \in Members, b \in Members \cup {None} :
        /\ call' = [fn |-> "__lt__", self |-> a, other |-> b]
        /\ ret' = lt(a, b)
        /\ UNCHANGED MainVars

call_le ==
    \E a \in Members, b \in Members \cup {None} :
        /\ call' = [fn |-> "__le__", self |-> a, other |-> b]
        /\ ret' = le(a, b)
        /\ UNCHANGED MainVars

call_gt ==
    \E a \in Members, b \in Members \cup {None} :
        /\ call' = [fn |-> "__gt__", self |-> a, other |-> b]
        /\ ret' = gt(a, b)
        /\ UNCHANGED MainVars

call_ge ==
    \E a \in Members, b \in Members \cup {None} :
        /\ call' = [fn |-> "__ge__", self |-> a, other |-> b]
        /\ ret' = ge(a, b)
        /\ UNCHANGED MainVars

call_idx ==
    \E a \in Members :
        /\ call' = [fn |-> "idx", self |-> a]
        /\ ret' = Returned(idx(a))
        /\ UNCHANGED MainVars

call_sorted ==
    /\ call' = [fn |-> "sorted"]
    /\ ret' = Returned(sorted(OmVariableEnum))
    /\ UNCHANGED MainVars

call_loc_str ==
    \E l \in LibLocations, delim \in {<<",", " ">>, <<" ">>} :
        /\ call' = [fn |-> "loc_str", self |-> l, delim |-> delim]
        /\ ret' = Returned(loc_str(l, delim))
        /\ UNCHANGED MainVars

\* What a provider call leaves behind: what it sent, how it ended, and the
\* Location afterwards.
ProviderReturn(sent, out) ==
    [val |-> None, exc |-> out.exc, line |-> out.line,
     loc |-> out.loc, sent |-> sent]

call_location_query_osm ==
    \E l \in LibLocations, answer \in OsmAnswers :
        /\ call' = [fn |-> "_location_query_osm", loc |-> l, answer |-> answer]
        /\ ret' = ProviderReturn(location_query_osm_request(l),
                                 location_query_osm(l, answer))
        /\ UNCHANGED MainVars

call_location_query_om ==
    \E l \in LibLocations, apikey \in {None, "secret"}, answer \in OmAnswers :
        /\ call' = [fn |-> "_location_query_om", loc |-> l, answer |-> answer]
        /\ ret' = ProviderReturn(location_query_om_request(l, apikey),
                                 location_query_om(l, answer))
        /\ UNCHANGED MainVars

NextLib ==
    \/ call_lt \/ call_le \/ call_gt \/ call_ge \/ call_idx \/ call_sorted
    \/ call_loc_str \/ call_location_query_osm \/ call_location_query_om

SpecLib == InitLib /\ [][NextLib]_vars

(***************************************************************************)
(* Properties.                                                             *)
(***************************************************************************)
Ended == pc \in {"done", "raised"}

\* The position in the batch of the location whose step raised.
FailedAt == IF exc.line <= 92 THEN Len(calls) + 1 ELSE j + 1

\* The first series of a list that carries the variable, and whether one does.
Has(series, kind) == \E n \in DOMAIN series : series[n].variable = kind
First(series, kind) ==
    series[CHOOSE n \in DOMAIN series :
              /\ series[n].variable = kind
              /\ \A k \in 1..(n - 1) : series[k].variable # kind]

\* hourly_T_air (hourly_radiation) holds what was extracted from `response`.
T_airExtracted ==
    /\ response # Unbound
    /\ hourly_T_air # Unbound
    /\ ~(pc = "raised" /\ exc.line \in {160, 163})
RadiationExtracted ==
    /\ response # Unbound
    /\ hourly_radiation # Unbound
    /\ ~(pc = "raised" /\ exc.line \in {160, 163, 165})

\* The coordinates the geocoder's n-th answer gives for its first candidate.
AnsweredLat(n) == geo_log[n].answer.json["results"][1]["latitude"].f
AnsweredLon(n) == geo_log[n].answer.json["results"][1]["longitude"].f

\* C1: every request prepare_om_params builds has an hourly list holding each
\* member's identifier exactly once, in declaration order: entry k.idx() is
\* k's identifier, and the list is as long as the enumeration.
C1_HourlyInDeclarationOrder ==
    \A k \in DOMAIN calls :
        LET hourly == calls[k].params.hourly IN
        /\ Len(hourly) = Len(OmVariableEnum)
        /\ \A m \in Members :
            /\ hourly[idx(m) + 1] = value(m)
            /\ Cardinality({n \in DOMAIN hourly : hourly[n] = value(m)}) = 1

\* Requests were built for two locations with different coordinates.
C1_Witness ==
    /\ Len(calls) >= 2
    /\ calls[1].params.latitude # calls[2].params.latitude
    /\ weather_log # <<>>

\* C2: extraction of a kind yields the values of the first series, in
\* response order, that carries the kind, whatever the order or number of
\* the response's series; it does not fail when such a series exists.
C2_ExtractsFirstMatchingSeries ==
    LET series == response.Hourly.Variables IN
    /\ (T_airExtracted /\ Has(series, "TempAir"))
        => hourly_T_air = ValuesAsNumpy(First(series, "TempAir"))
    /\ (RadiationExtracted /\ Has(series, "Radiation"))
        => hourly_radiation = ValuesAsNumpy(First(series, "Radiation"))
    /\ (pc = "raised" /\ exc.line = 163) => ~Has(series, "TempAir")
    /\ (pc = "raised" /\ exc.line = 165) => ~Has(series, "Radiation")

\* C3: when the run has ended, every location other than one whose own
\* step failed has been resolved, queried and printed.
C3_FailureDoesNotAbortOthers ==
    Ended => \A k \in 1..Len(batch) :
                (pc = "raised" /\ k = FailedAt) \/ k \in printed

\* C4: extracting TempAir from a response without a TempAir series fails
\* with VariableNotFoundError, and never yields another series' values.
C4_MissingKindRaises ==
    LET attempted == \/ T_airExtracted
                     \/ (pc = "raised" /\ exc.line = 163)
    IN  (attempted /\ ~Has(response.Hourly.Variables, "TempAir"))
            => /\ pc = "raised"
               /\ exc = [type |-> "VariableNotFoundError", line |-> 163]
               /\ hourly_T_air = Unbound

\* C5: get_coordinates ends in ResolutionError on an empty candidate list
\* and in ParseError on an unparseable latitude or longitude of the first
\* candidate, returns no Location then, and never returns a Location whose
\* latitude or longitude is NaN.
C5_ResolutionErrors ==
    /\ \A n \in DOMAIN geo_log :
        LET a == geo_log[n].answer
            raisedHere(type) ==
                n = Len(calls) + 1 /\ pc = "raised" /\ exc.type = type
        IN  (a # Unbound /\ a.exc = "None" /\ "results" \in DOMAIN a.json) =>
            /\ a.json["results"] = <<>> => raisedHere("ResolutionError")
            /\ (/\ a.json["results"] # <<>>
                /\ \E key \in DOMAIN a.json["results"][1] :
                      a.json["results"][1][key] = Unparseable)
                => raisedHere("ParseError")
    /\ \A k \in DOMAIN calls : ~calls[k].loc.lat.nan /\ ~calls[k].loc.lon.nan

\* C6: the query get_coordinates sends is loc_str(): the non-empty ones of
\* name and country joined with ", "; so the same name with two different
\* non-empty countries sends two different queries.
C6_QueryIsLocStr ==
    /\ \A n \in DOMAIN geo_log :
        geo_log[n].request.params.name
            = loc_str(LocationData(batch[n].city, batch[n].country), <<",", " ">>)
    /\ \A n, m \in DOMAIN geo_log :
        (/\ batch[n].city = batch[m].city
         /\ batch[n].country # batch[m].country
         /\ batch[n].country # <<>> /\ batch[m].country # <<>>)
        => geo_log[n].request # geo_log[m].request

\* C7: a Location is created with name and country only, leaves
\* get_coordinates with the coordinates of the geocoder's first candidate,
\* and no later step changes it.
C7_Step ==
    /\ (pc = "make_call" /\ pc' = "geo_wait")
        => loc' = [name |-> batch[Len(calls) + 1].city,
                   country |-> batch[Len(calls) + 1].country,
                   lat |-> nan, lon |-> nan]
    /\ Len(calls') > Len(calls)
        => /\ Len(calls') = Len(calls) + 1
           /\ calls'[Len(calls')].loc
                = [name |-> batch[Len(calls')].city,
                   country |-> batch[Len(calls')].country,
                   lat |-> geo_log'[Len(calls')].answer.json["results"][1]["latitude"].f,
                   lon |-> geo_log'[Len(calls')].answer.json["results"][1]["longitude"].f]
    /\ \A k \in DOMAIN calls : k \in DOMAIN calls' /\ calls'[k].loc = calls[k].loc

C7_LocationNeverMutatedAfterResolve == [][C7_Step]_vars

\* The whole batch ran: every Location was resolved and then read by the loop.
C7_Witness ==
    /\ pc = "done"
    /\ calls[1].loc.lat = Float(40)
    /\ calls[Len(calls)].loc.lon = Float(0 - 74)

\* C8 as stated: when a run of main has ended, exactly one weather-API call
\* was issued per location, each with that location's resolved coordinates,
\* and never two network calls at once.
C8_ExactlyOneCallPerLocation ==
    /\ Len(inflight) <= 1
    /\ Ended => Len(weather_log) = Len(batch)
    /\ \A n \in DOMAIN weather_log :
        /\ weather_log[n].latitude = AnsweredLat(n)
        /\ weather_log[n].longitude = AnsweredLon(n)

\* C8 amended: the weather-API calls are issued one at a time, in batch
\* order, one per loop iteration and only once every location is resolved;
\* the n-th call carries the n-th location's resolved coordinates; no two
\* network calls are in flight at once; a run that returns has issued
\* exactly one call per location, a run that raises one call for each
\* location up to the one being processed.
C8_CallsSequentialInBatchOrder ==
    /\ Len(inflight) <= 1
    /\ (inflight # <<>>) = (pc \in {"geo_wait", "weather_wait"})
    /\ weather_log # <<>> => Len(calls) = Len(batch)
    /\ Len(weather_log) = (IF pc = "weather_wait" \/ (pc = "raised" /\ exc.line > 92)
                           THEN j + 1 ELSE j)
    /\ Len(weather_log) <= Len(batch)
    /\ pc = "done" => Len(weather_log) = Len(batch)
    /\ pc = "weather_wait" => inflight[1].params = weather_log[Len(weather_log)]
    /\ \A n \in DOMAIN weather_log :
        /\ weather_log[n].latitude = AnsweredLat(n)
        /\ weather_log[n].longitude = AnsweredLon(n)
        /\ weather_log[n].latitude = calls[n].loc.lat
        /\ weather_log[n].longitude = calls[n].loc.lon

\* The run returned: one call was issued for each location.
C8_Witness ==
    /\ pc = "done"
    /\ Len(weather_log) = BatchLen
    /\ weather_log[1].latitude = Float(40)

\* C9: comparison of members follows declaration order: a < b exactly when
\* a.idx() < b.idx(), likewise <=, > and >=, and sorting the members gives
\* the declaration order.
C9_ComparisonFollowsDeclarationOrder ==
    /\ (call.fn \in {"__lt__", "__le__", "__gt__", "__ge__"} /\ call.other # None)
        => /\ ret.exc = "None"
           /\ ret.val = CASE call.fn = "__lt__" -> idx(call.self) < idx(call.other)
                          [] call.fn = "__le__" -> idx(call.self) <= idx(call.other)
                          [] call.fn = "__gt__" -> idx(call.self) > idx(call.other)
                          [] call.fn = "__ge__" -> idx(call.self) >= idx(call.other)
    /\ call.fn = "sorted" => ret.val = OmVariableEnum

\* C10: a provider query that fails leaves the Location it was given
\* unchanged, so latitude and longitude are resolved together or not at all.
C10_UpdateIsAllOrNothing ==
    call.fn \in {"_location_query_om", "_location_query_osm"}
        => /\ ret.exc # "None" => ret.loc = call.loc
           /\ (ret.exc # "None" /\ call.loc.lat.nan /\ call.loc.lon.nan)
                => ret.loc.lat.nan = ret.loc.lon.nan

====
